---- MODULE Spec2Model ----
(***************************************************************************)
(* Model of the appstore receipt verification client (package appstore):   *)
(* Client.Verify, Client.parseResponse and HandleError.                    *)
(*                                                                         *)
(* A Verify call is a sequential routine that blocks twice at most, in     *)
(* httpCli.Do; the model has one step per stretch of code between two      *)
(* blocking points.  The remote service is the environment: it answers a   *)
(* request with a transport error or with a response whose body is any     *)
(* element of a small set of bodies.                                       *)
(***************************************************************************)
EXTENDS Integers, Sequences, FiniteSets, TLC

\* ------------------------------------------------------------------ bounds
\* Number of Verify calls running concurrently on the shared client (SpecConc).
NumCalls == 2
\* HandleError is exercised on every status within StatusSlack of a boundary
\* of its case table.
StatusSlack == 2

\* --------------------------------------------------------------- constants
SandboxURL == "https://sandbox.itunes.apple.com/verifyReceipt"
ProductionURL == "https://buy.itunes.apple.com/verifyReceipt"
ContentType == "application/json; charset=utf-8"

\* The status of "sandbox receipt sent to production" tested by parseResponse.
SandboxReceiptStatus == 21007

\* The nil error.
Nil == "nil"

\* Errors httpCli.Do (or a read of the response body) can return: network
\* failure, http.Client.Timeout exceeded, cancellation of the caller's ctx.
TransportErrors == {"network error", "timeout", "context canceled"}

\* ------------------------------------------------------------- HandleError
InternalDataAccessMessage == "Internal data access error."
UnknownMessage == "An unknown error occurred"

\* A plausible slip in the default branch: the range test excludes its ends.
HandleErrorOpenRange(status) ==
  CASE status = 0 -> Nil
    [] status = 21000 -> "The App Store could not read the JSON object you provided."
    [] status = 21002 -> "The data in the receipt-data property was malformed or missing."
    [] status = 21003 -> "The receipt could not be authenticated."
    [] status = 21004 -> "The shared secret you provided does not match the shared secret on file for your account."
    [] status = 21005 -> "The receipt server is not currently available."
    [] status = 21007 -> "This receipt is from the test environment, but it was sent to the production environment for verification. Send it to the test environment instead."
    [] status = 21008 -> "This receipt is from the production environment, but it was sent to the test environment for verification. Send it to the production environment instead."
    [] status = 21010 -> "This receipt could not be authorized. Treat this the same as if a purchase was never made."
    [] OTHER -> IF status > 21100 /\ status < 21199
                  THEN InternalDataAccessMessage
                  ELSE UnknownMessage

\* HandleError(status): Nil for "return nil", else the message of errors.New.
HandleError(status) ==
  CASE status = 0 -> Nil
    [] status = 21000 -> "The App Store could not read the JSON object you provided."
    [] status = 21002 -> "The data in the receipt-data property was malformed or missing."
    [] status = 21003 -> "The receipt could not be authenticated."
    [] status = 21004 -> "The shared secret you provided does not match the shared secret on file for your account."
    [] status = 21005 -> "The receipt server is not currently available."
    [] status = 21007 -> "This receipt is from the test environment, but it was sent to the production environment for verification. Send it to the test environment instead."
    [] status = 21008 -> "This receipt is from the production environment, but it was sent to the test environment for verification. Send it to the production environment instead."
    [] status = 21010 -> "This receipt could not be authorized. Treat this the same as if a purchase was never made."
    [] OTHER -> IF status >= 21100 /\ status <= 21199
                  THEN InternalDataAccessMessage
                  ELSE UnknownMessage

\* ------------------------------------------------------------ request side
\* IAPRequest values the callers pass (by value: a call's copy never changes).
Requests ==
  { [ReceiptData |-> "abc123", Password |-> "", ExcludeOldTransactions |-> FALSE],
    [ReceiptData |-> "abc123", Password |-> "secret", ExcludeOldTransactions |-> TRUE] }

\* json.NewEncoder(b).Encode(reqBody): the members in declaration order, the
\* password left out when empty (omitempty), the boolean as a JSON literal.
Encode(reqBody) ==
  <<  <<"receipt-data", "string", reqBody.ReceiptData>> >>
  \o (IF reqBody.Password = "" THEN << >>
      ELSE << <<"password", "string", reqBody.Password>> >>)
  \o << <<"exclude-old-transactions", "bool",
          IF reqBody.ExcludeOldTransactions THEN "true" ELSE "false">> >>

\* URLs url.Parse rejects.
InvalidURLs == {"://missing-scheme"}

\* http.NewRequest(method, url, body) followed by the Content-Type header.
NewRequest(method, url, body) ==
  IF url \in InvalidURLs
    THEN [err |-> "url.Error", req |-> [method |-> method, url |-> url,
                                         contentType |-> "", body |-> body]]
    ELSE [err |-> Nil, req |-> [method |-> method, url |-> url,
                                 contentType |-> ContentType, body |-> body]]

\* New(isProduct) and NewWithClient(client, isProduct).
New(isProduct) ==
  [ProductionURL |-> ProductionURL, SandboxURL |-> SandboxURL, IsProduct |-> isProduct]

\* ----------------------------------------------------------- response side
Absent == "<absent>"
IntStatus(n) == [tag |-> "int", val |-> n]
AbsentStatus == [tag |-> "absent", val |-> 0]
\* A "status" member that is a JSON string: incompatible with an int field.
StringStatus == [tag |-> "string", val |-> 0]

\* Response bodies.  kind "json": one JSON object with the members given;
\* "trailing": the same followed by non-space bytes; "truncated": an object cut
\* short after the members given; "garbage": non-JSON bytes; "readfail": the
\* read of the body fails with a transport error before a whole value has
\* arrived.
Statuses == {AbsentStatus, StringStatus, IntStatus(0), IntStatus(21007), IntStatus(21002)}
Environments == {Absent, "Sandbox", "Production"}
JSONBodies == [kind : {"json"}, status : Statuses, environment : Environments]
BrokenBodies ==
  { [kind |-> "trailing", status |-> IntStatus(21007), environment |-> "Sandbox"],
    [kind |-> "trailing", status |-> IntStatus(0), environment |-> "Production"],
    [kind |-> "truncated", status |-> IntStatus(21007), environment |-> "Sandbox"],
    [kind |-> "garbage", status |-> AbsentStatus, environment |-> Absent],
    [kind |-> "readfail", status |-> AbsentStatus, environment |-> Absent] }
Bodies == JSONBodies \cup BrokenBodies
\* The bodies of the concurrent specification.
ConcBodies ==
  [kind : {"json"}, status : {IntStatus(0), IntStatus(21007)},
   environment : {Absent, "Sandbox"}]
  \cup { [kind |-> "truncated", status |-> IntStatus(21007), environment |-> Absent],
         [kind |-> "readfail", status |-> AbsentStatus, environment |-> Absent] }
NoBody == [kind |-> "none", status |-> AbsentStatus, environment |-> Absent]

\* Result targets the callers pass, each a pointer to an IAPResponse: a fresh
\* one and a reused one.
ZeroTarget == [status |-> 0, environment |-> ""]
Targets == {ZeroTarget, [status |-> 21003, environment |-> "Production"]}
\* var r StatusResponse
ZeroStatusResponse == [status |-> 0]

\* ioutil.ReadAll(resp.Body)
ReadAll(body) ==
  IF body.kind = "readfail" THEN [buf |-> body, err |-> "timeout"]
  ELSE [buf |-> body, err |-> Nil]

\* The value a struct field has after an object is decoded into the struct: a
\* member of the object sets its field, a field without a member keeps what it
\* held, a member of the wrong type is skipped.
FieldAfter(v, buf, f) ==
  IF f = "status"
    THEN IF buf.status.tag = "int" THEN buf.status.val ELSE v.status
    ELSE IF buf[f] = Absent THEN v[f] ELSE buf[f]

StoreObject(buf, v) ==
  [v |-> [f \in DOMAIN v |-> FieldAfter(v, buf, f)],
   err |-> IF buf.status.tag = "string" THEN "json.UnmarshalTypeError" ELSE Nil]

\* A decoder that stores the members as it scans them and meets the syntax
\* error afterwards.
UnmarshalStreaming(buf, v) ==
  IF buf.kind = "json" THEN StoreObject(buf, v)
  ELSE [v |-> StoreObject(buf, v).v, err |-> "json.SyntaxError"]

\* json.Unmarshal(buf, &v): the whole input is checked for validity first, so a
\* syntax error (trailing bytes included) leaves v untouched.
Unmarshal(buf, v) ==
  IF buf.kind = "json" THEN StoreObject(buf, v)
  ELSE [v |-> v, err |-> "json.SyntaxError"]

\* json.NewDecoder(resp.Body).Decode(v): reads one whole value from the stream,
\* then stores it; bytes after the value are not looked at.
Decode(body, v) ==
  CASE body.kind = "readfail" -> [v |-> v, err |-> "timeout"]
    [] body.kind = "truncated" -> [v |-> v, err |-> "io.ErrUnexpectedEOF"]
    [] body.kind = "garbage" -> [v |-> v, err |-> "json.SyntaxError"]
    [] OTHER -> StoreObject(body, v)

\* The condition of the fallback, without the configuration.
FallbackOnStatusAlone(isProduct, status) == status = SandboxReceiptStatus
\* The condition of the fallback, on every remote failure.
FallbackOnAnyFailure(isProduct, status) == isProduct = FALSE /\ status # 0

\* c.IsProduct == false && r.Status == 21007
NeedsSandbox(isProduct, status) ==
  isProduct = FALSE /\ status = SandboxReceiptStatus

\* The sandbox request sent to the production endpoint again.
SandboxRequestToProduction(c, reqBody) ==
  NewRequest("POST", c.ProductionURL, Encode(reqBody))

\* The request of the fallback: the same reqBody encoded again, for c.SandboxURL.
SandboxRequest(c, reqBody) ==
  NewRequest("POST", c.SandboxURL, Encode(reqBody))

\* The request of the first attempt.
ProductionRequest(c, reqBody) ==
  NewRequest("POST", c.ProductionURL, Encode(reqBody))

\* ------------------------------------------------------------------- state
VARIABLES
  client,    \* the shared Client: ProductionURL, SandboxURL, IsProduct
  pc,        \* pc[i]: where Verify call i stands
  reqBody,   \* reqBody[i]: the IAPRequest call i was given (its own copy)
  target0,   \* target0[i]: what the caller's result target held at the call
  result,    \* result[i]: what the caller's result target holds now
  err,       \* err[i]: the error call i returned (Nil: none)
  sent,      \* sent[i]: the requests call i handed to httpCli.Do, in order
  rcvd,      \* rcvd[i]: the outcomes httpCli.Do returned to call i, in order
  heStatus,  \* the argument of a HandleError call
  heResult   \* what that call returned

vars == <<client, pc, reqBody, target0, result, err, sent, rcvd, heStatus, heResult>>

Calls == DOMAIN pc

\* n calls about to start on one client made by New or NewWithClient.
InitCalls(n, targets) ==
  /\ \E isProduct \in BOOLEAN : client = New(isProduct)
  /\ pc = [i \in 1..n |-> "idle"]
  /\ reqBody \in [1..n -> Requests]
  /\ target0 \in [1..n -> targets]
  /\ result = target0
  /\ err = [i \in 1..n |-> Nil]
  /\ sent = [i \in 1..n |-> << >>]
  /\ rcvd = [i \in 1..n |-> << >>]
  /\ heStatus = 0
  /\ heResult = "not called"

Init == InitCalls(1, Targets)

InitConc == InitCalls(NumCalls, {ZeroTarget})

\* A request as httpCli.Do gets it; seen is the number of outcomes the call had
\* received by then.
Issued(i, req) == [method |-> req.method, url |-> req.url,
                   contentType |-> req.contentType, body |-> req.body,
                   seen |-> Len(rcvd[i])]

\* "return e" out of Verify.
Return(i, e) ==
  /\ pc' = [pc EXCEPT ![i] = "done"]
  /\ err' = [err EXCEPT ![i] = e]

\* Verify, from its call to the first httpCli.Do.
Verify(i) ==
  /\ pc[i] = "idle"
  /\ LET rq == ProductionRequest(client, reqBody[i])
     IN IF rq.err # Nil
          THEN /\ Return(i, rq.err)
               /\ UNCHANGED sent
          ELSE /\ sent' = [sent EXCEPT ![i] = Append(@, Issued(i, rq.req))]
               /\ pc' = [pc EXCEPT ![i] = "awaitProduction"]
               /\ UNCHANGED err
  /\ UNCHANGED <<client, reqBody, target0, result, rcvd, heStatus, heResult>>

\* A failed production attempt followed by an attempt on the sandbox.
DoProductionErrorThenSandbox(i, e) ==
  /\ pc[i] = "awaitProduction"
  /\ rcvd' = [rcvd EXCEPT ![i] = Append(@, [err |-> e, body |-> NoBody])]
  /\ sent' = [sent EXCEPT ![i] =
                Append(@, [Issued(i, SandboxRequest(client, reqBody[i]).req)
                             EXCEPT !.seen = Len(rcvd[i]) + 1])]
  /\ pc' = [pc EXCEPT ![i] = "awaitSandbox"]
  /\ UNCHANGED <<client, reqBody, target0, result, err, heStatus, heResult>>

\* The first httpCli.Do returns an error: Verify returns it.
DoProductionError(i, e) ==
  /\ pc[i] = "awaitProduction"
  /\ rcvd' = [rcvd EXCEPT ![i] = Append(@, [err |-> e, body |-> NoBody])]
  /\ Return(i, e)
  /\ UNCHANGED <<client, reqBody, target0, result, sent, heStatus, heResult>>

\* parseResponse looking at the status first and storing the body into the
\* target only once the production response is the one that stands.
ParseOutcomeStatusFirst(c, req, target, body) ==
  LET rd == ReadAll(body)
      u == Unmarshal(rd.buf, target)
      r == Unmarshal(rd.buf, ZeroStatusResponse)
      rq == SandboxRequest(c, req)
  IN CASE rd.err # Nil -> [to |-> "done", err |-> rd.err, result |-> target, send |-> << >>]
       [] rd.err = Nil /\ r.err # Nil ->
            [to |-> "done", err |-> r.err, result |-> target, send |-> << >>]
       [] OTHER ->
            IF NeedsSandbox(c.IsProduct, r.v.status)
              THEN [to |-> "awaitSandbox", err |-> Nil, result |-> target,
                    send |-> <<rq.req>>]
              ELSE [to |-> "done", err |-> u.err, result |-> u.v, send |-> << >>]

\* What parseResponse does with a production response of the given body, up to
\* its return or to its own httpCli.Do.  to: "done" or "awaitSandbox".
ParseOutcome(c, req, target, body) ==
  LET rd == ReadAll(body)
      u == Unmarshal(rd.buf, target)
      r == Unmarshal(rd.buf, ZeroStatusResponse)
      rq == SandboxRequest(c, req)
  IN CASE rd.err # Nil -> [to |-> "done", err |-> rd.err, result |-> target, send |-> << >>]
       [] rd.err = Nil /\ u.err # Nil ->
            [to |-> "done", err |-> u.err, result |-> u.v, send |-> << >>]
       [] rd.err = Nil /\ u.err = Nil /\ r.err # Nil ->
            [to |-> "done", err |-> r.err, result |-> u.v, send |-> << >>]
       [] OTHER ->
            IF NeedsSandbox(c.IsProduct, r.v.status)
              THEN IF rq.err # Nil
                     THEN [to |-> "done", err |-> rq.err, result |-> u.v, send |-> << >>]
                     ELSE [to |-> "awaitSandbox", err |-> Nil, result |-> u.v,
                           send |-> <<rq.req>>]
              ELSE [to |-> "done", err |-> Nil, result |-> u.v, send |-> << >>]

\* parseResponse on a client that remembers the fallback: once a receipt has
\* turned out to be a sandbox receipt, the client's first endpoint becomes the
\* sandbox endpoint.
parseResponseRemembering(i, body) ==
  /\ pc[i] = "awaitProduction"
  /\ rcvd' = [rcvd EXCEPT ![i] = Append(@, [err |-> Nil, body |-> body])]
  /\ LET o == ParseOutcome(client, reqBody[i], result[i], body)
     IN /\ result' = [result EXCEPT ![i] = o.result]
        /\ pc' = [pc EXCEPT ![i] = o.to]
        /\ err' = [err EXCEPT ![i] = o.err]
        /\ sent' = [sent EXCEPT ![i] =
             @ \o [k \in 1..Len(o.send) |->
                     [Issued(i, o.send[k]) EXCEPT !.seen = Len(rcvd[i]) + 1]]]
        /\ client' = IF o.to = "awaitSandbox"
                       THEN [client EXCEPT !.ProductionURL = client.SandboxURL]
                       ELSE client
  /\ UNCHANGED <<reqBody, target0, heStatus, heResult>>

\* The first httpCli.Do returns a response: Verify calls parseResponse, which
\* runs to its return or to the second httpCli.Do.
parseResponse(i, body) ==
  /\ pc[i] = "awaitProduction"
  /\ rcvd' = [rcvd EXCEPT ![i] = Append(@, [err |-> Nil, body |-> body])]
  /\ LET o == ParseOutcome(client, reqBody[i], result[i], body)
     IN /\ result' = [result EXCEPT ![i] = o.result]
        /\ pc' = [pc EXCEPT ![i] = o.to]
        /\ err' = [err EXCEPT ![i] = o.err]
        /\ sent' = [sent EXCEPT ![i] =
             @ \o [k \in 1..Len(o.send) |->
                     [Issued(i, o.send[k]) EXCEPT !.seen = Len(rcvd[i]) + 1]]]
  /\ UNCHANGED <<client, reqBody, target0, heStatus, heResult>>

\* The second httpCli.Do returns an error: parseResponse returns it.
DoSandboxError(i, e) ==
  /\ pc[i] = "awaitSandbox"
  /\ rcvd' = [rcvd EXCEPT ![i] = Append(@, [err |-> e, body |-> NoBody])]
  /\ Return(i, e)
  /\ UNCHANGED <<client, reqBody, target0, result, sent, heStatus, heResult>>

\* A fallback that chains: a sandbox response of status 21007 is followed by
\* one more request.
DecodeSandboxChained(i, body) ==
  /\ pc[i] = "awaitSandbox"
  /\ rcvd' = [rcvd EXCEPT ![i] = Append(@, [err |-> Nil, body |-> body])]
  /\ LET d == Decode(body, result[i])
     IN /\ result' = [result EXCEPT ![i] = d.v]
        /\ IF d.err = Nil /\ NeedsSandbox(client.IsProduct, d.v.status)
             THEN /\ sent' = [sent EXCEPT ![i] =
                       Append(@, [Issued(i, SandboxRequest(client, reqBody[i]).req)
                                    EXCEPT !.seen = Len(rcvd[i]) + 1])]
                  /\ UNCHANGED <<pc, err>>
             ELSE /\ Return(i, d.err)
                  /\ UNCHANGED sent
  /\ UNCHANGED <<client, reqBody, target0, heStatus, heResult>>

\* The second httpCli.Do returns a response: it is decoded into the result
\* target and parseResponse returns what Decode returned.
DecodeSandbox(i, body) ==
  /\ pc[i] = "awaitSandbox"
  /\ rcvd' = [rcvd EXCEPT ![i] = Append(@, [err |-> Nil, body |-> body])]
  /\ LET d == Decode(body, result[i])
     IN /\ result' = [result EXCEPT ![i] = d.v]
        /\ Return(i, d.err)
  /\ UNCHANGED <<client, reqBody, target0, sent, heStatus, heResult>>

Next ==
  \/ \E i \in Calls : Verify(i)
  \/ \E i \in Calls, e \in TransportErrors : DoProductionError(i, e)
  \/ \E i \in Calls, body \in Bodies : parseResponse(i, body)
  \/ \E i \in Calls, e \in TransportErrors : DoSandboxError(i, e)
  \/ \E i \in Calls, body \in Bodies : DecodeSandbox(i, body)

Spec == Init /\ [][Next]_vars

NextConc ==
  \/ \E i \in Calls : Verify(i)
  \/ \E i \in Calls, e \in TransportErrors : DoProductionError(i, e)
  \/ \E i \in Calls, body \in ConcBodies : parseResponse(i, body)
  \/ \E i \in Calls, e \in TransportErrors : DoSandboxError(i, e)
  \/ \E i \in Calls, body \in ConcBodies : DecodeSandbox(i, body)

SpecConc == InitConc /\ [][NextConc]_vars

\* --------------------------------------- HandleError as a state machine
StatusDomain ==
  ((0 - StatusSlack) .. StatusSlack)
  \cup ((21000 - StatusSlack) .. (21010 + StatusSlack))
  \cup ((21100 - StatusSlack) .. (21199 + StatusSlack))

InitHandleError ==
  /\ client = New(TRUE)
  /\ pc = << >>
  /\ reqBody = << >>
  /\ target0 = << >>
  /\ result = << >>
  /\ err = << >>
  /\ sent = << >>
  /\ rcvd = << >>
  /\ heStatus \in StatusDomain
  /\ heResult = "not called"

HandleErrorCall ==
  /\ heResult = "not called"
  /\ heResult' = HandleError(heStatus)
  /\ UNCHANGED <<client, pc, reqBody, target0, result, err, sent, rcvd, heStatus>>

NextHandleError == HandleErrorCall

SpecHandleError == InitHandleError /\ [][NextHandleError]_vars

\* ================================================================ claims
\* The outcome of call i's k-th attempt, and whether it failed in transport: in
\* httpCli.Do, or in the read of the response body.
Got(i, k) == rcvd[i][k]
Responded(i, k) == Len(rcvd[i]) >= k /\ Got(i, k).err = Nil
TransportFailed(i, k) ==
  /\ Len(rcvd[i]) >= k
  /\ Got(i, k).err # Nil \/ Got(i, k).body.kind = "readfail"
FailureOf(i, k) == IF Got(i, k).err # Nil THEN Got(i, k).err ELSE "timeout"

\* The status a body carries: the "status" member, 0 without one.
StatusOf(body) == IF body.status.tag = "int" THEN body.status.val ELSE 0
\* The body is one JSON object that fits the target.
WellFormed(body) == body.kind = "json" /\ body.status.tag # "string"
\* The production response of call i decoded, and with which status.
ProductionDecoded(i) == Responded(i, 1) /\ WellFormed(Got(i, 1).body)
ProductionStatus(i) == StatusOf(Got(i, 1).body)

\* What target v holds once the object in body has been decoded into it.
DecodedInto(body, v) ==
  [status |-> IF body.status.tag = "int" THEN body.status.val ELSE v.status,
   environment |-> IF body.environment = Absent THEN v.environment
                   ELSE body.environment]

\* C1: with IsProduct = false, once the production response has decoded with
\* status 21007 the call has issued exactly one further request; it went to the
\* sandbox endpoint, was issued after the production response had been
\* received, and carries the body of the call's production request.
C1_FallbackRequest ==
  \A i \in Calls :
    (client.IsProduct = FALSE /\ ProductionDecoded(i)
       /\ ProductionStatus(i) = 21007)
    => /\ Len(sent[i]) = 2
       /\ sent[i][1].url = ProductionURL
       /\ sent[i][1].seen = 0
       /\ sent[i][2].url = SandboxURL
       /\ sent[i][2].url = client.SandboxURL
       /\ sent[i][2].seen = 1
       /\ sent[i][2].body = sent[i][1].body
       /\ sent[i][2].body = Encode(reqBody[i])

C1_Witness ==
  \E i \in Calls :
    /\ client.IsProduct = FALSE
    /\ ProductionDecoded(i) /\ ProductionStatus(i) = 21007
    /\ pc[i] = "done"
    /\ Len(sent[i]) = 2
    /\ reqBody[i].Password = "secret"

\* C2: when the fallback is taken and succeeds, the result target is what
\* decoding the sandbox body alone gives on the target as the caller passed it
\* (a fresh one when the caller passed a fresh one): nothing of the production
\* body is left in it.
C2_SandboxBodyOnly ==
  \A i \in Calls :
    (pc[i] = "done" /\ err[i] = Nil /\ Len(sent[i]) = 2 /\ Responded(i, 2))
    => result[i] = DecodedInto(Got(i, 2).body, target0[i])

\* C3: with IsProduct = true no request ever goes to the sandbox endpoint, and
\* a production response of status 21007 ends the call without error, the
\* result target holding the decoded production body.
C3_ProductionOnly ==
  client.IsProduct = TRUE =>
    \A i \in Calls :
      /\ \A k \in 1..Len(sent[i]) :
           sent[i][k].url # SandboxURL /\ sent[i][k].url # client.SandboxURL
      /\ Len(sent[i]) <= 1
      /\ (ProductionDecoded(i) /\ ProductionStatus(i) = 21007)
         => /\ pc[i] = "done"
            /\ err[i] = Nil
            /\ result[i] = DecodedInto(Got(i, 1).body, target0[i])
            /\ result[i].status = 21007

C3_Witness ==
  \E i \in Calls :
    /\ client.IsProduct = TRUE
    /\ ProductionDecoded(i) /\ ProductionStatus(i) = 21007
    /\ pc[i] = "done"

\* C4: under either configuration, a production response that decodes with a
\* status other than 21007 ends the call without error and without a sandbox
\* request, the result target holding the decoded production body.
C4_OtherStatusStands ==
  \A i \in Calls :
    (ProductionDecoded(i) /\ ProductionStatus(i) # 21007)
    => /\ pc[i] = "done"
       /\ err[i] = Nil
       /\ Len(sent[i]) = 1
       /\ sent[i][1].url = ProductionURL
       /\ result[i] = DecodedInto(Got(i, 1).body, target0[i])

C4_Witness ==
  \E i \in Calls :
    /\ client.IsProduct = FALSE
    /\ ProductionDecoded(i) /\ ProductionStatus(i) = 21002
    /\ pc[i] = "done"
    /\ result[i].status = 21002

\* C5: a call issues at most two requests, the first to the production
\* endpoint and the second to the sandbox endpoint; a sandbox response that
\* decodes, whatever its status, ends the call with that response decoded into
\* the result target.
C5_AtMostOneFallback ==
  \A i \in Calls :
    /\ Len(sent[i]) <= 2
    /\ Len(sent[i]) >= 1 => sent[i][1].url = ProductionURL
    /\ Len(sent[i]) = 2 => sent[i][2].url = SandboxURL
    /\ (Responded(i, 2) /\ Got(i, 2).body.kind \in {"json", "trailing"}
          /\ Got(i, 2).body.status.tag # "string")
       => /\ pc[i] = "done"
          /\ err[i] = Nil
          /\ result[i] = DecodedInto(Got(i, 2).body,
                                     DecodedInto(Got(i, 1).body, target0[i]))

C5_Witness ==
  \E i \in Calls :
    /\ Responded(i, 2)
    /\ Got(i, 2).body.kind = "json"
    /\ Got(i, 2).body.status = IntStatus(21007)
    /\ pc[i] = "done"
    /\ Len(sent[i]) = 2

\* C6: HandleError returns no error exactly for status 0; for a documented
\* code a message of its own, which is neither of the two generic ones; for
\* 21100..21199 the internal data access message; for every other status the
\* unknown error message.
DocumentedStatuses == {21000, 21002, 21003, 21004, 21005, 21007, 21008, 21010}

C6_HandleErrorTable ==
  heResult # "not called" =>
    /\ heResult = Nil <=> heStatus = 0
    /\ heStatus \in DocumentedStatuses =>
         /\ heResult \notin {Nil, InternalDataAccessMessage, UnknownMessage}
         /\ \A t \in DocumentedStatuses \ {heStatus} : heResult # HandleError(t)
    /\ heStatus \in 21100..21199 => heResult = InternalDataAccessMessage
    /\ heStatus \notin ({0} \cup DocumentedStatuses \cup (21100..21199)) =>
         heResult = UnknownMessage

C6_Witness ==
  /\ heResult = InternalDataAccessMessage
  /\ heStatus = 21199

\* C7: a transport failure of the attempt in progress ends the call with that
\* error and no further request: after a failed production attempt one request
\* has been issued and the result target is as it was; after a failed sandbox
\* attempt two have.
C7_TransportFailureEndsCall ==
  \A i \in Calls :
    /\ TransportFailed(i, 1) =>
         /\ pc[i] = "done"
         /\ err[i] = FailureOf(i, 1)
         /\ Len(rcvd[i]) = 1
         /\ Len(sent[i]) = 1
         /\ result[i] = target0[i]
    /\ TransportFailed(i, 2) =>
         /\ pc[i] = "done"
         /\ err[i] = FailureOf(i, 2)
         /\ Len(rcvd[i]) = 2
         /\ Len(sent[i]) = 2

C7_Witness ==
  \E i \in Calls :
    /\ TransportFailed(i, 2)
    /\ err[i] = "context canceled"
    /\ pc[i] = "done"

\* C8: a production body that is malformed JSON ends the call with a decode
\* error, without a sandbox request under either configuration, and with the
\* result target as it was.
C8_MalformedProductionBody ==
  \A i \in Calls :
    (Responded(i, 1) /\ Got(i, 1).body.kind \in {"truncated", "garbage", "trailing"})
    => /\ pc[i] = "done"
       /\ err[i] = "json.SyntaxError"
       /\ Len(sent[i]) = 1
       /\ result[i] = target0[i]

C8_Witness ==
  \E i \in Calls :
    /\ Responded(i, 1)
    /\ Got(i, 1).body.kind = "truncated"
    /\ Got(i, 1).body.status = IntStatus(21007)
    /\ client.IsProduct = FALSE
    /\ pc[i] = "done"

\* What a call does when it runs alone on client c with request req, target
\* and the outcomes outs of its attempts, at position at.
Alone(c, req, target, outs, at) ==
  LET rq == ProductionRequest(c, req)
      first == [method |-> rq.req.method, url |-> rq.req.url,
                contentType |-> rq.req.contentType, body |-> rq.req.body,
                seen |-> 0]
      o == ParseOutcome(c, req, target, outs[1].body)
      second == [k \in 1..Len(o.send) |->
                   [method |-> o.send[k].method, url |-> o.send[k].url,
                    contentType |-> o.send[k].contentType,
                    body |-> o.send[k].body, seen |-> 1]]
      d == Decode(outs[2].body, o.result)
  IN CASE at = "idle" ->
            [pc |-> "idle", err |-> Nil, result |-> target, sent |-> << >>]
       [] at # "idle" /\ Len(outs) = 0 ->
            [pc |-> "awaitProduction", err |-> Nil, result |-> target,
             sent |-> <<first>>]
       [] at # "idle" /\ Len(outs) >= 1 /\ outs[1].err # Nil ->
            [pc |-> "done", err |-> outs[1].err, result |-> target,
             sent |-> <<first>>]
       [] at # "idle" /\ Len(outs) = 1 /\ outs[1].err = Nil ->
            [pc |-> o.to, err |-> o.err, result |-> o.result,
             sent |-> <<first>> \o second]
       [] at # "idle" /\ Len(outs) >= 2 /\ outs[1].err = Nil /\ outs[2].err # Nil ->
            [pc |-> "done", err |-> outs[2].err, result |-> o.result,
             sent |-> <<first>> \o second]
       [] OTHER ->
            [pc |-> "done", err |-> d.err, result |-> d.v,
             sent |-> <<first>> \o second]

SameAsAlone ==
  \A i \in Calls :
    /\ Len(rcvd[i]) <= 2
    /\ [pc |-> pc[i], err |-> err[i], result |-> result[i], sent |-> sent[i]]
       = Alone(New(client.IsProduct), reqBody[i], target0[i], rcvd[i], pc[i])

\* C9: no step of a Verify call writes the client configuration, and in every
\* interleaving of the calls on one client each call's requests, returned
\* error and result target are those of the call running alone, on the client
\* as constructed, with the same responses.
C9_SelfContainedCalls == [][client' = client]_vars /\ []SameAsAlone

C9_Witness ==
  /\ \A i \in Calls : pc[i] = "done"
  /\ \E i, j \in Calls :
       /\ i < j
       /\ Len(sent[i]) = 2
       /\ Len(sent[j]) = 1
       /\ reqBody[i] # reqBody[j]
       /\ result[i] # result[j]

\* C10: when the fallback is triggered and the sandbox attempt fails in
\* transport, the call returns an error and the result target holds the
\* decoded production response, of status 21007.
C10_ProductionLeftInTarget ==
  \A i \in Calls :
    TransportFailed(i, 2) =>
      /\ err[i] # Nil
      /\ result[i] = DecodedInto(Got(i, 1).body, target0[i])
      /\ result[i].status = 21007
      /\ result[i] # target0[i]

C10_Witness ==
  \E i \in Calls :
    /\ TransportFailed(i, 2)
    /\ Got(i, 2).err = "timeout"
    /\ target0[i] = ZeroTarget
    /\ result[i] = [status |-> 21007, environment |-> "Sandbox"]

====
